---- MODULE Spec2Model ----
(***************************************************************************)
(* A model of the bugbrawler ticket bot: the entry-point view and its      *)
(* selects (ui/views.py, ui/select_ui.py), the ticket form                 *)
(* (ui/modal.py), the ticket panels and their handlers                     *)
(* (ui/ticket_management.py) and the startup handler (main.py).            *)
(*                                                                         *)
(* Every interaction handler is a coroutine.  A press of a component is    *)
(* bound to the view instance that rendered the component; the handler of  *)
(* that instance runs later, when the event loop gets to it (the tracker   *)
(* calls are blocking `requests` calls, so a press made while another      *)
(* handler is inside its tracker call is queued).  A press is therefore a  *)
(* step of its own (Press...), and the handler a later step.               *)
(***************************************************************************)
EXTENDS Integers, Sequences, FiniteSets, TLC

\* ---------------------------------------------------------------- bounds
\* the tickets of a run, and those of a run in which the users race
MaxTickets == 2
MaxTicketsRaced == 1
MaxTasks == 2
MaxStartups == 3
MaxCollaborators == 27
MaxOffset == 3

\* ------------------------------------------------------------- constants
Users == {"u1", "u2"}
None == "None"

\* settings.py: the role ids of the configuration
DEV == "DEV_ROLE_ID"
STAFF == "STAFF_ROLE_ID"
ADMIN == "ADMIN_ROLE_ID"
OWNER == "OWNER_ROLE_ID"
RoleIds == {DEV, STAFF, ADMIN, OWNER}
OptionalRoleIds == {STAFF, ADMIN, OWNER}

\* select_ui.py: the option values of the three selects
TicketTypes == {"bug", "feature", "documentation", "help"}
TicketPriorities == {"high", "medium", "low"}
RepoValues == {"frontend", "backend"}

\* settings.py: the two repository names
REPO_NAME == "REPO_NAME"
REPO_NAME_FRONTEND == "REPO_NAME_FRONTEND"

\* What a tracker call (requests.post/get/patch) can end with: a response
\* with a status code, or an exception raised by the HTTP client.
Response(raised, status_code) ==
    [raised |-> raised, status_code |-> status_code]

\* createIssue answers 201 on success, the other calls 200.
PostResponses ==
    {Response(FALSE, 201), Response(FALSE, 200), Response(FALSE, 404),
     Response(TRUE, 0)}

Responses == {Response(FALSE, 200), Response(FALSE, 404), Response(TRUE, 0)}

\* The collaborator lists the tracker may return.
CollabLists == {<<>>, <<"alice">>}

Tickets == 1..MaxTickets

VARIABLES
    \* ---- the entry-point view (TicketCreateView instance)
    ticket_type,      \* TicketCreateView.ticket_type
    ticket_priority,  \* TicketCreateView.ticket_priority
    selected_by,      \* history: whose selection each of the two attributes is
    \* ---- the configuration (settings.py), loaded once at import
    configured,       \* the optional role ids that are set (not None)
    \* ---- the tickets
    nTickets,         \* number of issues the tracker has created
    issue,            \* issue[t]: the [repo, number] createIssue returned
    panel,            \* panel[t]: the message in the ticket channel and its view
    channel,          \* channel[t]: "none" | "open" | "deleted"
    assigned,         \* the tickets an assignIssue call has returned 200 for
    summarised,       \* the tickets with a summary in the completion channel
    confirms,         \* open ChannelDeleteConfirmView panels: <<user, ticket>>
    tasks,            \* interactions dispatched to a handler and not finished
    \* ---- startup
    file,             \* ticket_message.json: absent, or readable or not, with an id
    messages,         \* entry-point messages that exist in the channel
    attached,         \* message ids with a TicketCreateView attached
    nPosted,          \* entry-point messages ever posted
    nStartups,        \* on_ready runs so far
    \* ---- what the last step did
    last

intakeVars == <<ticket_type, ticket_priority, selected_by>>
ticketVars == <<configured, nTickets, issue, panel, channel, assigned,
                summarised, confirms, tasks>>
readyVars == <<file, messages, attached, nPosted, nStartups>>
vars == <<intakeVars, ticketVars, readyVars, last>>

\* What one step did: the handler, who pressed, which ticket, how the handler
\* ended, the tracker calls it made, the messages it sent (eph: visible to the
\* acting user only; pub: to a shared channel), the panels and channels it
\* created, whether an exception left the handler, and the acting user's roles
\* at that moment, and the fields of the form the step is about (title,
\* description and the form's repo_select).
Step(op, user, ticket, outcome, calls, eph, pub, panels, chans, raised, roles, form) ==
    [op |-> op, user |-> user, ticket |-> ticket, outcome |-> outcome,
     calls |-> calls, eph |-> eph, pub |-> pub, panels |-> panels,
     chans |-> chans, raised |-> raised, roles |-> roles, form |-> form]

\* A tracker call: createIssue (arg: the labels), listCollaborators,
\* assignIssue (arg: the assignee), closeIssue; status is the status code of
\* the response, 0 when the call raised.
Call(api, repo, number, arg, resp) ==
    [api |-> api, repo |-> repo, number |-> number, arg |-> arg,
     status |-> resp.status_code]

\* The optional role ids of the environment: none, one or all of them set.
ConfiguredChoices == {{}, {STAFF}, OptionalRoleIds}

\* The acting user's roles at the moment of an interaction: any of the
\* developer role and the optional roles that are configured.
RoleSets == {{}} \cup {{r} : r \in {DEV} \cup configured}

\* ------------------------------------------------------------ the views
NoPanel ==
    [kind |-> "none", status |-> "none", repo |-> None, number |-> 0,
     options |-> <<>>, live |-> FALSE]

Take(s, n) == SubSeq(s, 1, IF Len(s) < n THEN Len(s) ELSE n)

get_collaborators_unchecked(resp, body) == body

\* AssigneeSelect.get_collaborators: the list of a 200 response, else [].
get_collaborators(resp, body) ==
    IF ~resp.raised /\ resp.status_code = 200 THEN body ELSE <<>>

AssigneeOptionsUncapped(collaborators) ==
    IF collaborators = <<>> THEN <<"none">> ELSE collaborators

\* AssigneeSelect.__init__: at most 25 options, or the one placeholder.
AssigneeOptions(collaborators) ==
    IF Take(collaborators, 25) = <<>> THEN <<"none">>
    ELSE Take(collaborators, 25)

TicketTodoViewNoSelect(repo, number, status, resp, body) ==
    [kind |-> "Todo", status |-> status, repo |-> repo, number |-> number,
     options |-> <<>>, live |-> TRUE]

\* TicketTodoView.__init__: the issue's identity and the assignee select.
TicketTodoView(repo, number, status, resp, body) ==
    [kind |-> "Todo", status |-> status, repo |-> repo, number |-> number,
     options |-> AssigneeOptions(get_collaborators(resp, body)), live |-> TRUE]

TicketDoneViewNoIdentity(repo, number) ==
    [kind |-> "Done", status |-> "Work in Progress", repo |-> None,
     number |-> 0, options |-> <<>>, live |-> TRUE]

\* TicketDoneView.__init__
TicketDoneView(repo, number) ==
    [kind |-> "Done", status |-> "Work in Progress", repo |-> repo,
     number |-> number, options |-> <<>>, live |-> TRUE]

\* TicketCompleteView.__init__: it carries no issue identity.
TicketCompleteView ==
    [kind |-> "Complete", status |-> "Completed", repo |-> None, number |-> 0,
     options |-> <<>>, live |-> TRUE]

\* The lifecycle state a panel renders.
Lifecycle(p) ==
    CASE p.kind = "Todo" -> "AwaitingAssignment"
      [] p.kind = "Done" -> "InProgress"
      [] p.kind = "Complete" -> "Completed"
      [] OTHER -> "none"

\* ------------------------------------------------------- the ticket form
RequiredTitleOnly ==
    [ticket_title |-> TRUE, ticket_description |-> FALSE,
     technical_description |-> FALSE]

\* TicketModal.__init__: which text inputs are declared required=True.  The
\* platform does not submit a form with an empty required input.
RequiredInputs ==
    [ticket_title |-> TRUE, ticket_description |-> TRUE,
     technical_description |-> FALSE]

FormAccepted(title, description, technical) ==
    /\ RequiredInputs.ticket_title => title # ""
    /\ RequiredInputs.ticket_description => description # ""
    /\ RequiredInputs.technical_description => technical # ""

\* on_submit, the repository of the selection; with any other selection no
\* branch assigns url and repo_name.
RepoBound(repo_select) == repo_select \in {"frontend", "backend"}

RepoOf(repo_select) ==
    IF repo_select = "frontend" THEN REPO_NAME_FRONTEND ELSE REPO_NAME

\* The number the tracker gives the next issue of a repository.
NextIssueNumber(repo) ==
    1 + Cardinality({t \in 1..nTickets : issue[t].repo = repo})

\* on_submit: the issue was created.
CreateOk(resp) == ~resp.raised /\ resp.status_code = 201

\* TicketModal.on_submit for the form fields ticket_type tt, priority pr,
\* repo_select rs, title and description.  What the outside answers is drawn
\* where the handler asks: the tracker's answer to createIssue and to
\* listCollaborators, whether create_text_channel succeeds and whether the
\* todo channel resolves.
on_submit(u, tt, pr, rs, title, description) ==
    LET repo == RepoOf(rs)
        t == nTickets + 1
        create(resp) == Call("createIssue", repo, 0, <<tt, pr>>, resp)
        list(resp) == Call("listCollaborators", repo, 0, <<>>, resp)
        number == NextIssueNumber(repo)
        form == <<title, description, rs>>
    IN
    /\ nTickets < MaxTickets
    /\ UNCHANGED <<intakeVars, readyVars, configured, assigned, summarised,
                   confirms, tasks>>
    /\ IF ~RepoBound(rs) THEN
          \* UnboundLocalError at re.post(url, ...): no call is made
          /\ last' = Step("on_submit", u, 0, "unbound_url", <<>>, 0, 0, 0, 0,
                          TRUE, {}, form)
          /\ UNCHANGED <<nTickets, issue, panel, channel>>
       ELSE \E resp \in PostResponses :
          IF resp.raised THEN
             \* re.post raised: nothing catches it
             /\ last' = Step("on_submit", u, 0, "post_raised",
                             <<create(resp)>>, 0, 0, 0, 0, TRUE, {}, form)
             /\ UNCHANGED <<nTickets, issue, panel, channel>>
          ELSE IF ~CreateOk(resp) THEN
             /\ last' = Step("on_submit", u, 0, "create_failed",
                             <<create(resp)>>, 1, 0, 0, 0, FALSE, {}, form)
             /\ UNCHANGED <<nTickets, issue, panel, channel>>
          ELSE
             /\ nTickets' = t
             /\ issue' = [issue EXCEPT ![t] =
                              [repo |-> repo, number |-> number]]
             /\ \E chanOK \in BOOLEAN :
                   IF ~chanOK THEN
                      \* create_text_channel raised: nothing catches it
                      /\ last' = Step("on_submit", u, t, "channel_raised",
                                      <<create(resp)>>, 0, 0, 0, 0, TRUE, {},
                                      form)
                      /\ UNCHANGED <<panel, channel>>
                   ELSE \E todoOK \in BOOLEAN, cresp \in Responses,
                           cbody \in CollabLists :
                      /\ channel' = [channel EXCEPT ![t] = "open"]
                      /\ panel' = [panel EXCEPT ![t] =
                             TicketTodoView(repo, number,
                                 "Waiting for Assignment", cresp, cbody)]
                      /\ last' = Step("on_submit", u, t, "created",
                                      <<create(resp), list(cresp)>>, 1,
                                      IF todoOK THEN 1 ELSE 0, 1, 1, FALSE,
                                      {}, form)

\* The form is submitted: the platform refuses a form with an empty required
\* input, otherwise on_submit runs.
Submit(u) ==
    /\ nTickets < MaxTickets
    /\ \E title, description, technical \in {"", "text"},
          rs \in RepoValues \cup {None} :
        IF ~FormAccepted(title, description, technical) THEN
            /\ last' = Step("submit_refused", u, 0, "refused", <<>>, 0, 0, 0,
                            0, FALSE, {}, <<title, description, rs>>)
            /\ UNCHANGED <<intakeVars, readyVars, ticketVars>>
        ELSE
            \E tt \in TicketTypes, pr \in TicketPriorities :
                on_submit(u, tt, pr, rs, title, description)

\* --------------------------------------------------- presses on a panel
\* An interaction dispatched to the handler of the view instance that
\* rendered the pressed component; it carries what that instance holds.  Two
\* fields record the history of a press of "yes": after_cancel, whether the
\* press directly followed the same user's cancel on the ticket's
\* confirmation panel, and allowed, whether the user held one of the roles
\* delete_channel_button lets through when confirm_delete started (FALSE
\* until then).
TaskOfFirstPanel(op, u, t, value, pc) ==
    [op |-> op, user |-> u, ticket |-> 1, repo |-> panel[1].repo,
     number |-> panel[1].number, value |-> value, pc |-> pc,
     after_cancel |-> FALSE, allowed |-> FALSE]

Task(op, u, t, value, pc) ==
    [op |-> op, user |-> u, ticket |-> t, repo |-> panel[t].repo,
     number |-> panel[t].number, value |-> value, pc |-> pc,
     after_cancel |-> FALSE, allowed |-> FALSE]

PressableExpired(t, kind) ==
    /\ Cardinality(tasks) < MaxTasks
    /\ channel[t] = "open"
    /\ panel[t].kind = kind

\* A component of the ticket's panel can be pressed, and the press is
\* dispatched, while the view that rendered it listens.
Pressable(t, kind) ==
    /\ Cardinality(tasks) < MaxTasks
    /\ channel[t] = "open"
    /\ panel[t].kind = kind
    /\ panel[t].live

Pressed(op, u, t) ==
    /\ last' = Step("press", u, t, op, <<>>, 0, 0, 0, 0, FALSE, {}, <<>>)
    /\ UNCHANGED <<intakeVars, readyVars, configured, nTickets, issue, panel, channel, assigned, summarised, confirms>>

\* A user picks an option of the assignee select of the Todo view.
PressAssign(u, t) ==
    /\ Pressable(t, "Todo")
    /\ \E i \in 1..Len(panel[t].options) :
           tasks' = tasks \cup {Task("assign", u, t, panel[t].options[i], "queued")}
    /\ Pressed("assign", u, t)

PressClaim(u, t) ==
    /\ Pressable(t, "Todo")
    /\ tasks' = tasks \cup {Task("claim", u, t, "", "queued")}
    /\ Pressed("claim", u, t)

PressDone(u, t) ==
    /\ Pressable(t, "Done")
    /\ tasks' = tasks \cup {Task("done", u, t, "", "queued")}
    /\ Pressed("done", u, t)

PressDeleteAnyPanel(u, t) ==
    /\ Cardinality(tasks) < MaxTasks
    /\ channel[t] = "open"
    /\ panel[t].kind # "none"
    /\ panel[t].live
    /\ tasks' = tasks \cup {Task("delete", u, t, "", "queued")}
    /\ Pressed("delete", u, t)

\* The delete button is a component of the Complete view only.
PressDelete(u, t) ==
    /\ Pressable(t, "Complete")
    /\ tasks' = tasks \cup {Task("delete", u, t, "", "queued")}
    /\ Pressed("delete", u, t)

\* The confirmation panel is an ephemeral message: only its user sees it.
PressConfirm(u, t) ==
    /\ Cardinality(tasks) < MaxTasks
    /\ <<u, t>> \in confirms
    /\ tasks' = tasks \cup
           {[Task("confirm", u, t, "", "queued") EXCEPT !.after_cancel =
                 (last.op = "cancel" /\ last.user = u /\ last.ticket = t)]}
    /\ Pressed("confirm", u, t)

PressCancel(u, t) ==
    /\ Cardinality(tasks) < MaxTasks
    /\ <<u, t>> \in confirms
    /\ tasks' = tasks \cup {Task("cancel", u, t, "", "queued")}
    /\ Pressed("cancel", u, t)

\* A press on a component of the ticket's panel after its view stopped
\* listening (it timed out, or the process that held it is gone): nothing is
\* dispatched to any handler.
PressIgnored(u, t) ==
    /\ channel[t] = "open"
    /\ panel[t].kind # "none"
    /\ ~panel[t].live
    /\ last' = Step("press", u, t, "ignored", <<>>, 0, 0, 0, 0, FALSE, {},
                    <<>>)
    /\ UNCHANGED <<intakeVars, readyVars, ticketVars>>

\* ------------------------------------------------------------ handlers
Queued(task, op) == task \in tasks /\ task.op = op /\ task.pc = "queued"

\* interaction.response.edit_message on the panel of ticket t: it replaces
\* embed and view; it raises when the channel is gone.
CanEdit(t) == channel[t] = "open"

AssignOkAnyStatus(resp) == ~resp.raised

\* AssigneeSelect.callback: the tracker assigned the issue.
AssignOk(resp) == ~resp.raised /\ resp.status_code = 200

\* AssigneeSelect.callback
callback(task, resp) ==
    LET u == task.user
        t == task.ticket
        call == Call("assignIssue", task.repo, task.number, <<task.value>>,
                     resp)
    IN
    /\ Queued(task, "assign")
    /\ tasks' = tasks \ {task}
    /\ UNCHANGED <<intakeVars, readyVars, configured, nTickets, issue, channel, summarised, confirms>>
    /\ IF task.value = "none" THEN
          /\ last' = Step("assign", u, t, "no_assignee", <<>>, 1, 0, 0, 0,
                          FALSE, {}, <<>>)
          /\ UNCHANGED <<panel, assigned>>
       ELSE IF AssignOk(resp) THEN
          /\ assigned' = assigned \cup {t}
          /\ IF CanEdit(t) THEN
                /\ panel' = [panel EXCEPT ![t] =
                                 TicketDoneView(task.repo, task.number)]
                /\ last' = Step("assign", u, t, "assigned", <<call>>, 0, 0,
                                0, 0, FALSE, {}, <<>>)
             ELSE
                \* edit_message raised; the except branch reports it
                /\ last' = Step("assign", u, t, "edit_failed", <<call>>, 1,
                                0, 0, 0, FALSE, {}, <<>>)
                /\ UNCHANGED panel
       ELSE
          /\ last' = Step("assign", u, t, "failed", <<call>>, 1, 0, 0, 0,
                          FALSE, {}, <<>>)
          /\ UNCHANGED <<panel, assigned>>

ClaimAllowedAnyone(roles) == TRUE

\* TicketTodoView.claim_ticket: the role the claim button asks for.
ClaimAllowed(roles) == DEV \in roles

\* TicketTodoView.claim_ticket
claim_ticket(task, roles) ==
    LET u == task.user
        t == task.ticket
        list(resp) == Call("listCollaborators", task.repo, 0, <<>>, resp)
    IN
    /\ Queued(task, "claim")
    /\ tasks' = tasks \ {task}
    /\ UNCHANGED <<intakeVars, readyVars, configured, nTickets, issue, channel, assigned, summarised,
                   confirms>>
    /\ IF ~ClaimAllowed(roles) THEN
          /\ last' = Step("claim", u, t, "rejected", <<>>, 1, 0, 0, 0, FALSE,
                          roles, <<>>)
          /\ UNCHANGED panel
       ELSE IF CanEdit(t) THEN
          \* a new TicketTodoView on the message, then the public notice
          \E cresp \in Responses, cbody \in CollabLists :
              /\ panel' = [panel EXCEPT ![t] =
                     TicketTodoView(task.repo, task.number, "Claimed", cresp,
                                    cbody)]
              /\ last' = Step("claim", u, t, "claimed", <<list(cresp)>>, 0, 1,
                              0, 0, FALSE, roles, <<>>)
       ELSE
          \* edit_message raised: nothing catches it
          /\ \E cresp \in Responses :
                 last' = Step("claim", u, t, "edit_raised", <<list(cresp)>>,
                              0, 0, 0, 0, TRUE, roles, <<>>)
          /\ UNCHANGED panel

CloseOkAnyStatus(resp) == ~resp.raised

\* TicketDoneView.done_button: the tracker closed the issue.
CloseOk(resp) == ~resp.raised /\ resp.status_code = 200

\* TicketDoneView.done_button
done_button(task, resp, doneOK) ==
    LET u == task.user
        t == task.ticket
        call == Call("closeIssue", task.repo, task.number, <<>>, resp)
    IN
    /\ Queued(task, "done")
    /\ tasks' = tasks \ {task}
    /\ UNCHANGED <<intakeVars, readyVars, configured, nTickets, issue, channel, assigned, confirms>>
    /\ IF ~CloseOk(resp) THEN
          /\ last' = Step("done", u, t, "failed", <<call>>, 1, 0, 0, 0, FALSE,
                          {}, <<>>)
          /\ UNCHANGED <<panel, summarised>>
       ELSE IF ~doneOK THEN
          \* the issue is closed, the done channel does not resolve
          /\ last' = Step("done", u, t, "no_done_channel", <<call>>, 1, 0, 0,
                          0, FALSE, {}, <<>>)
          /\ UNCHANGED <<panel, summarised>>
       ELSE
          /\ summarised' = summarised \cup {t}
          /\ IF CanEdit(t) THEN
                /\ panel' = [panel EXCEPT ![t] = TicketCompleteView]
                /\ last' = Step("done", u, t, "completed", <<call>>, 0, 1, 0,
                                0, FALSE, {}, <<>>)
             ELSE
                \* edit_message raised; the except branch reports it
                /\ last' = Step("done", u, t, "edit_failed", <<call>>, 1, 1,
                                0, 0, FALSE, {}, <<>>)
                /\ UNCHANGED panel

\* TicketCompleteView.delete_channel_button: the roles it lets through.
AllowedRoles == {DEV} \cup configured

DeleteAllowed(roles) == roles \cap AllowedRoles # {}

\* TicketCompleteView.delete_channel_button
delete_channel_button(task, roles) ==
    LET u == task.user
        t == task.ticket
    IN
    /\ Queued(task, "delete")
    /\ tasks' = tasks \ {task}
    /\ UNCHANGED <<intakeVars, readyVars, configured, nTickets, issue, panel, channel, assigned, summarised>>
    /\ IF ~DeleteAllowed(roles) THEN
          /\ last' = Step("delete", u, t, "rejected", <<>>, 1, 0, 0, 0, FALSE,
                          roles, <<>>)
          /\ UNCHANGED confirms
       ELSE
          \* the confirmation panel, sent as an ephemeral message
          /\ confirms' = confirms \cup {<<u, t>>}
          /\ last' = Step("delete", u, t, "confirm_opened", <<>>, 1, 0, 0, 0,
                          FALSE, roles, <<>>)

\* ChannelDeleteConfirmView.confirm_delete up to asyncio.sleep(3); `roles`
\* are the acting user's roles at this moment, which the handler never reads.
confirm_delete(task, roles) ==
    /\ Queued(task, "confirm")
    /\ tasks' = (tasks \ {task}) \cup
                 {[task EXCEPT !.pc = "sleeping",
                               !.allowed = DeleteAllowed(roles)]}
    /\ last' = Step("confirm", task.user, task.ticket, "announced", <<>>, 1,
                    0, 0, 0, FALSE, roles, <<>>)
    /\ UNCHANGED <<intakeVars, readyVars, configured, nTickets, issue, panel, channel, assigned, summarised, confirms>>

CanDeleteAlways(t) == TRUE

\* interaction.channel.delete: it raises NotFound once the channel is gone.
CanDelete(t) == channel[t] = "open"

\* ChannelDeleteConfirmView.confirm_delete after the sleep: channel.delete,
\* and the follow-up of the except branch when it raises.
confirm_delete_after_sleep(task) ==
    LET u == task.user
        t == task.ticket
    IN
    /\ task \in tasks
    /\ task.op = "confirm"
    /\ task.pc = "sleeping"
    /\ tasks' = tasks \ {task}
    /\ UNCHANGED <<intakeVars, readyVars, configured, nTickets, issue, panel, assigned,
                   summarised>>
    /\ IF CanDelete(t) THEN
          \* the ephemeral panels of the channel go with it
          /\ channel' = [channel EXCEPT ![t] = "deleted"]
          /\ confirms' = {c \in confirms : c[2] # t}
          /\ last' = Step("confirm", u, t, "deleted", <<>>, 0, 0, 0, 0, FALSE,
                          {}, <<>>)
       ELSE
          /\ last' = Step("confirm", u, t, "delete_failed", <<>>, 1, 0, 0, 0,
                          FALSE, {}, <<>>)
          /\ UNCHANGED <<channel, confirms>>

\* ChannelDeleteConfirmView.cancel_delete: one message; the view is neither
\* stopped nor are its buttons disabled, so the panel goes on listening.
cancel_delete(task) ==
    /\ Queued(task, "cancel")
    /\ tasks' = tasks \ {task}
    /\ last' = Step("cancel", task.user, task.ticket, "cancelled", <<>>, 1, 0,
                    0, 0, FALSE, {}, <<>>)
    /\ UNCHANGED <<intakeVars, readyVars, configured, nTickets, issue, panel, channel, assigned, summarised, confirms>>

\* ChannelDeleteConfirmView(timeout=60): the view stops listening.
ConfirmTimeout(u, t) ==
    /\ <<u, t>> \in confirms
    /\ confirms' = confirms \ {<<u, t>>}
    /\ last' = Step("timeout", u, t, "confirm_view", <<>>, 0, 0, 0, 0, FALSE,
                    {}, <<>>)
    /\ UNCHANGED <<intakeVars, readyVars, configured, nTickets, issue, panel, channel, assigned, summarised, tasks>>

\* TicketCompleteView(timeout=300): the view stops listening.
CompleteTimeout(t) ==
    /\ panel[t].kind = "Complete"
    /\ panel[t].live
    /\ panel' = [panel EXCEPT ![t].live = FALSE]
    /\ last' = Step("timeout", None, t, "complete_view", <<>>, 0, 0, 0, 0,
                    FALSE, {}, <<>>)
    /\ UNCHANGED <<intakeVars, readyVars, configured, nTickets, issue, channel, assigned,
                   summarised, confirms, tasks>>

\* The process is restarted: the views it held are gone, and on_ready
\* attaches a view to the entry-point message only.
Restart ==
    /\ nTickets > 0
    /\ panel' = [t \in Tickets |-> [panel[t] EXCEPT !.live = FALSE]]
    /\ tasks' = {}
    /\ confirms' = {}
    /\ last' = Step("restart", None, 0, "restarted", <<>>, 0, 0, 0, 0, FALSE,
                    {}, <<>>)
    /\ UNCHANGED <<intakeVars, readyVars, configured, nTickets, issue, channel, assigned,
                   summarised>>

\* ------------------------------------------------- startup (main.py)
\* TicketCreateView.__init__: both attributes None, nobody has selected.
NobodySelected == [ticket_type |-> None, ticket_priority |-> None]

\* ticket_message.json: {"message_id": id}, or no such file.
File(id) == [exists |-> TRUE, readable |-> TRUE, message_id |-> id]

NoFile == [exists |-> FALSE, readable |-> FALSE, message_id |-> 0]

FileFoundNever == FALSE

\* on_ready: open("ticket_message.json") raises FileNotFoundError or not.
FileFound == file.exists

\* on_ready, run by a freshly started process: the views of the previous
\* process are gone.  chOK: fetch_channel finds the ticket channel; sendOK:
\* channel.send succeeds.
on_ready(chOK, sendOK) ==
    LET id == nPosted + 1 IN
    /\ nStartups < MaxStartups
    /\ nStartups' = nStartups + 1
    /\ ticket_type' = None
    /\ ticket_priority' = None
    /\ selected_by' = NobodySelected
    /\ UNCHANGED ticketVars
    /\ IF ~chOK THEN
          \* fetch_channel raised
          /\ attached' = {}
          /\ last' = Step("on_ready", None, 0, "no_channel", <<>>, 0, 0, 0, 0,
                          TRUE, {}, <<>>)
          /\ UNCHANGED <<file, messages, nPosted>>
       ELSE IF ~FileFound THEN
          \* open() raised FileNotFoundError: post the message, save its id
          IF sendOK THEN
             /\ messages' = messages \cup {id}
             /\ attached' = {id}
             /\ nPosted' = id
             /\ file' = File(id)
             /\ last' = Step("on_ready", None, 0, "posted", <<>>, 0, 1, 0, 0,
                             FALSE, {}, <<>>)
          ELSE
             /\ attached' = {}
             /\ last' = Step("on_ready", None, 0, "send_raised", <<>>, 0, 0,
                             0, 0, TRUE, {}, <<>>)
             /\ UNCHANGED <<file, messages, nPosted>>
       ELSE IF ~file.readable THEN
          \* json.load raised: only FileNotFoundError is caught
          /\ attached' = {}
          /\ last' = Step("on_ready", None, 0, "unreadable", <<>>, 0, 0, 0, 0,
                          TRUE, {}, <<>>)
          /\ UNCHANGED <<file, messages, nPosted>>
       ELSE IF file.message_id \in messages THEN
          \* msg.edit(view=TicketCreateView())
          /\ attached' = {file.message_id}
          /\ last' = Step("on_ready", None, 0, "reactivated", <<>>, 0, 0, 0,
                          0, FALSE, {}, <<>>)
          /\ UNCHANGED <<file, messages, nPosted>>
       ELSE
          \* fetch_message raised NotFound
          /\ attached' = {}
          /\ last' = Step("on_ready", None, 0, "no_message", <<>>, 0, 0, 0, 0,
                          TRUE, {}, <<>>)
          /\ UNCHANGED <<file, messages, nPosted>>

\* Somebody deletes the entry-point message in the chat.
MessageDeleted ==
    /\ \E m \in messages :
          /\ messages' = messages \ {m}
          /\ attached' = attached \ {m}
    /\ last' = Step("message_deleted", None, 0, "deleted", <<>>, 0, 0, 0, 0,
                    FALSE, {}, <<>>)
    /\ UNCHANGED <<intakeVars, ticketVars, file, nPosted, nStartups>>

\* ticket_message.json is damaged on disk.
FileDamaged ==
    /\ file.exists
    /\ file.readable
    /\ file' = [file EXCEPT !.readable = FALSE]
    /\ last' = Step("file_damaged", None, 0, "corrupt", <<>>, 0, 0, 0, 0,
                    FALSE, {}, <<>>)
    /\ UNCHANGED <<intakeVars, ticketVars, messages, attached, nPosted,
                   nStartups>>

\* ------------------------------- the entry-point view (ui/views.py)
\* The components of the entry-point message answer while a view is attached.
EntryLive == attached # {}

\* TicketTypeSelect.callback
TicketTypeSelect_callback(u, v) ==
    /\ EntryLive
    /\ ticket_type' = v
    /\ selected_by' = [selected_by EXCEPT !.ticket_type = u]
    /\ last' = Step("select_type", u, 0, v, <<>>, 0, 0, 0, 0, FALSE, {}, <<>>)
    /\ UNCHANGED <<ticket_priority, ticketVars, readyVars>>

\* TicketPrioritySelect.callback
TicketPrioritySelect_callback(u, v) ==
    /\ EntryLive
    /\ ticket_priority' = v
    /\ selected_by' = [selected_by EXCEPT !.ticket_priority = u]
    /\ last' = Step("select_priority", u, 0, v, <<>>, 0, 0, 0, 0, FALSE, {}, <<>>)
    /\ UNCHANGED <<ticket_type, ticketVars, readyVars>>

\* TicketModal.__init__(self, ticket_type, priority, repo_select): the
\* parameters a call has to bind.
TicketModalParams == {"ticket_type", "priority", "repo_select"}

\* TicketCreateView.create_ticket: the arguments it passes to TicketModal.
CreateTicketArgs == {"ticket_type", "priority"}

\* A call binds every parameter, or Python raises TypeError.
Binds(args, params) == params \subseteq args

\* TicketCreateView.create_ticket
create_ticket(u) ==
    /\ EntryLive
    /\ UNCHANGED <<intakeVars, ticketVars, readyVars>>
    /\ IF ticket_type = None \/ ticket_priority = None THEN
          last' = Step("create_ticket", u, 0, "rejected", <<>>, 1, 0, 0, 0,
                       FALSE, {}, <<>>)
       ELSE IF Binds(CreateTicketArgs, TicketModalParams) THEN
          \* send_modal(TicketModal(...)): the form opens with the selection
          last' = Step("create_ticket", u, 0, "modal_opened",
                       <<ticket_type, ticket_priority>>, 0, 0, 0, 0, FALSE,
                       {}, <<>>)
       ELSE
          \* TicketModal(...) raised TypeError: no form opens
          last' = Step("create_ticket", u, 0, "type_error", <<>>, 0, 0, 0, 0,
                       TRUE, {}, <<>>)

\* ------------------------------------------------ the specification
NoStep == Step("init", None, 0, "init", <<>>, 0, 0, 0, 0, FALSE, {}, <<>>)

InitIntake ==
    /\ ticket_type = None
    /\ ticket_priority = None
    /\ selected_by = NobodySelected

InitReady ==
    /\ file = NoFile
    /\ messages = {}
    /\ attached = {}
    /\ nPosted = 0
    /\ nStartups = 0

InitTickets ==
    /\ configured \in ConfiguredChoices
    /\ nTickets = 0
    /\ issue = [t \in Tickets |-> [repo |-> None, number |-> 0]]
    /\ panel = [t \in Tickets |-> NoPanel]
    /\ channel = [t \in Tickets |-> "none"]
    /\ assigned = {}
    /\ summarised = {}
    /\ confirms = {}
    /\ tasks = {}

Init == InitIntake /\ InitTickets /\ InitReady /\ last = NoStep

Next ==
    \/ \E u \in Users : nTickets < MaxTicketsRaced /\ Submit(u)
    \/ \E u \in Users, t \in Tickets : PressAssign(u, t)
    \/ \E u \in Users, t \in Tickets : PressClaim(u, t)
    \/ \E u \in Users, t \in Tickets : PressDone(u, t)
    \/ \E u \in Users, t \in Tickets : PressDelete(u, t)
    \/ \E u \in Users, t \in Tickets : PressConfirm(u, t)
    \/ \E u \in Users, t \in Tickets : PressCancel(u, t)
    \/ \E u \in Users, t \in Tickets : PressIgnored(u, t)
    \/ \E task \in tasks, resp \in Responses : callback(task, resp)
    \/ \E task \in tasks, roles \in RoleSets : claim_ticket(task, roles)
    \/ \E task \in tasks, resp \in Responses, doneOK \in BOOLEAN :
          done_button(task, resp, doneOK)
    \/ \E task \in tasks, roles \in RoleSets :
          delete_channel_button(task, roles)
    \/ \E task \in tasks, roles \in RoleSets : confirm_delete(task, roles)
    \/ \E task \in tasks : confirm_delete_after_sleep(task)
    \/ \E task \in tasks : cancel_delete(task)
    \/ \E u \in Users, t \in Tickets : ConfirmTimeout(u, t)
    \/ \E t \in Tickets : CompleteTimeout(t)
    \/ Restart

Spec == Init /\ [][Next]_vars

\* Two tickets side by side: the panel actions of one user on the panels of
\* MaxTickets tickets, one interaction in flight per ticket, in every
\* interleaving of the presses and handlers of different tickets.
PairUsers == {"u1"}

InitPair == Init /\ configured = {}

\* No interaction of the ticket's panels is in flight.
Idle(t) == \A task \in tasks : task.ticket # t

NextPair ==
    \/ \E u \in PairUsers : Submit(u)
    \/ \E u \in PairUsers, t \in Tickets :
          Idle(t) /\ PressAssign(u, t)
    \/ \E u \in PairUsers, t \in Tickets :
          Idle(t) /\ PressClaim(u, t)
    \/ \E u \in PairUsers, t \in Tickets :
          Idle(t) /\ PressDone(u, t)
    \/ \E u \in PairUsers, t \in Tickets :
          Idle(t) /\ PressDelete(u, t)
    \/ \E u \in PairUsers, t \in Tickets :
          Idle(t) /\ PressConfirm(u, t)
    \/ \E u \in PairUsers, t \in Tickets :
          Idle(t) /\ PressCancel(u, t)
    \/ \E task \in tasks, resp \in Responses : callback(task, resp)
    \/ \E task \in tasks, roles \in RoleSets : claim_ticket(task, roles)
    \/ \E task \in tasks, resp \in Responses, doneOK \in BOOLEAN :
          done_button(task, resp, doneOK)
    \/ \E task \in tasks, roles \in RoleSets :
          delete_channel_button(task, roles)
    \/ \E task \in tasks, roles \in RoleSets : confirm_delete(task, roles)
    \/ \E task \in tasks : confirm_delete_after_sleep(task)
    \/ \E task \in tasks : cancel_delete(task)

SpecPair == InitPair /\ [][NextPair]_vars

\* Startup and the entry-point view.
NextEntry ==
    \/ \E chOK, sendOK \in BOOLEAN : on_ready(chOK, sendOK)
    \/ MessageDeleted
    \/ FileDamaged
    \/ \E u \in Users, v \in TicketTypes : TicketTypeSelect_callback(u, v)
    \/ \E u \in Users, v \in TicketPriorities :
          TicketPrioritySelect_callback(u, v)
    \/ \E u \in Users : create_ticket(u)

SpecEntry == Init /\ [][NextEntry]_vars

\* The assignee select as a function of the tracker's collaborator list.
\* The logins the tracker may list, in its order.
HandlePool ==
    <<
      "h01", "h02", "h03", "h04", "h05", "h06", "h07", "h08", "h09",
      "h10", "h11", "h12", "h13", "h14", "h15", "h16", "h17", "h18",
      "h19", "h20", "h21", "h22", "h23", "h24", "h25", "h26", "h27",
      "h28", "h29", "h30", "h31", "h32", "h33", "h34", "h35", "h36",
      "h37", "h38", "h39", "h40"
    >>

\* A collaborator list of n logins: the n logins after the first k of the pool.
Collaborators(k, n) == SubSeq(HandlePool, k + 1, k + n)

InitSelect ==
    /\ InitIntake
    /\ InitTickets
    /\ InitReady
    /\ \E k \in 0..MaxOffset, n \in 0..MaxCollaborators :
          last = Step("input", None, 0, "collaborators", <<>>, 0, 0, 0, 0,
                      FALSE, {}, Collaborators(k, n))

\* TicketTodoView.__init__ with its AssigneeSelect.__init__, for the
\* collaborator list of the input and the answer resp of the tracker: the
\* view is built, not yet posted.
AssigneeSelect_init(resp) ==
    /\ last.op = "input"
    /\ panel' = [panel EXCEPT ![1] =
                     TicketTodoView(REPO_NAME, 1, "Waiting for Assignment",
                                    resp, last.form)]
    /\ last' = Step("select_init", None, 1, "built",
                    <<Call("listCollaborators", REPO_NAME, 0, <<>>, resp)>>,
                    0, 0, 0, 0, FALSE, {}, last.form)
    /\ UNCHANGED <<intakeVars, readyVars, configured, nTickets, issue, channel, assigned, summarised, confirms, tasks>>

NextSelect == \E resp \in Responses : AssigneeSelect_init(resp)

SpecSelect == InitSelect /\ [][NextSelect]_vars

\* ------------------------------------------------------------ the claims
Rank(p) ==
    CASE Lifecycle(p) = "AwaitingAssignment" -> 1
      [] Lifecycle(p) = "InProgress" -> 2
      [] Lifecycle(p) = "Completed" -> 3
      [] OTHER -> 0

\* C1: under every interleaving of panel actions a ticket's rendered
\* lifecycle state never moves backward: no step takes a panel from
\* InProgress to AwaitingAssignment, or from Completed to InProgress or
\* AwaitingAssignment.
C1_LifecycleNeverBackward ==
    [][\A t \in Tickets : Rank(panel'[t]) >= Rank(panel[t])]_vars

\* C2: a form submission whose createIssue call returns 201 posts exactly one
\* panel and puts exactly one ticket into AwaitingAssignment; with any other
\* status there is no ticket, no panel, no channel and exactly one message,
\* to the submitting user only.
C2_CreateIssueOutcome ==
    (last.op = "on_submit" /\ last.calls # <<>> /\ last.calls[1].status # 0)
        => IF last.calls[1].status = 201
           THEN /\ last.panels = 1
                /\ last.ticket \in Tickets
                /\ Lifecycle(panel[last.ticket]) = "AwaitingAssignment"
           ELSE /\ last.ticket = 0
                /\ last.panels = 0
                /\ last.chans = 0
                /\ last.eph = 1
                /\ last.pub = 0

\* C3: once an assignIssue call has returned 200 for a ticket, no step makes
\* another assignIssue call for it, also when two users select an assignee
\* on the same panel at nearly the same time.
C3_AssignedOnce ==
    [][\A t \in assigned :
          (last'.op = "assign" /\ last'.ticket = t) => last'.calls = <<>>]_vars

\* C4: a press of "mark done" whose closeIssue call returns 200 leaves the
\* ticket Completed with exactly one summary posted to the completion
\* channel; a press whose closeIssue call fails posts nothing there.
C4_DoneOutcome ==
    last.op = "done"
        => IF last.calls[1].status = 200
           THEN /\ Lifecycle(panel[last.ticket]) = "Completed"
                /\ last.pub = 1
           ELSE last.pub = 0

\* C5: a ticket channel is deleted only by the handler of a pressed "yes",
\* and an actor who holds none of the configured staff, admin and owner
\* roles (the developer role does not count) is rejected by the delete
\* button: no confirmation panel, no deletion.
C5_DeleteNeedsElevatedRole ==
    [][/\ \A t \in Tickets :
             (channel'[t] = "deleted" /\ channel[t] # "deleted")
                 => \E task \in tasks \ tasks' :
                        /\ task.op = "confirm"
                        /\ task.ticket = t
                        /\ task.pc = "sleeping"
       /\ (last'.op = "delete" /\ last'.roles \cap configured = {})
             => /\ last'.outcome = "rejected"
                /\ confirms' = confirms
                /\ channel' = channel]_vars

\* C6: a startup that finds the persisted record and completes posts nothing,
\* leaves the record alone and has the view attached to the recorded
\* message; a startup that finds no record and completes posts exactly one
\* message, persists its id and has the view attached to it.  At most one
\* entry-point message is ever posted, and no startup changes a record that
\* exists.
C6_EntryPointOnce ==
    [][/\ last'.op = "on_ready" =>
             /\ file.exists =>
                   /\ nPosted' = nPosted
                   /\ file' = file
                   /\ ~last'.raised => attached' = {file.message_id}
             /\ ~file.exists =>
                   IF last'.raised
                   THEN nPosted' = nPosted /\ file' = file
                   ELSE /\ nPosted' = nPosted + 1
                        /\ file' = File(nPosted')
                        /\ attached' = {nPosted'}
                        /\ nPosted' \in messages'
       /\ nPosted' <= 1
       /\ nPosted' >= nPosted]_vars

C6_Witness ==
    /\ last.op = "on_ready"
    /\ last.outcome = "reactivated"
    /\ nStartups >= 2
    /\ nPosted = 1
    /\ attached = {file.message_id}

\* C7: a press of the create button opens the form with the selected values
\* for every pair of set category and priority; with category or priority
\* unset the press is rejected with one message to the acting user and the
\* stored category and priority stay as they are.
C7_CreateOpensForm ==
    [][last'.op = "create_ticket" =>
          /\ ticket_type' = ticket_type
          /\ ticket_priority' = ticket_priority
          /\ IF ticket_type # None /\ ticket_priority # None
             THEN /\ last'.outcome = "modal_opened"
                  /\ last'.form = <<ticket_type, ticket_priority>>
             ELSE /\ last'.outcome = "rejected"
                  /\ last'.eph = 1]_vars

\* C8: a form submitted with an empty title or an empty description is
\* refused, and no createIssue call or other remote call is made for it.
C8_EmptyFormRefused ==
    (last.op \in {"on_submit", "submit_refused"}
        /\ \E i \in 1..Len(last.form) : last.form[i] = "")
        => /\ last.op = "submit_refused"
           /\ last.calls = <<>>
           /\ last.panels = 0
           /\ last.chans = 0

C8_Witness ==
    /\ last.op = "submit_refused"
    /\ last.form[1] = "text"
    /\ last.form[2] = ""
    /\ nTickets = 0

\* C9: an assign or close handler whose tracker call does not succeed makes
\* that one call only, sends exactly one message, to the acting user, and
\* leaves panel, lifecycle state and channel as they were.
C9_FailedCallChangesNothing ==
    [][(/\ last'.op \in {"assign", "done"}
        /\ last'.calls # <<>>
        /\ last'.calls[1].status # 200)
          => /\ Len(last'.calls) = 1
             /\ last'.eph = 1
             /\ last'.pub = 0
             /\ ~last'.raised
             /\ panel' = panel
             /\ channel' = channel
             /\ assigned' = assigned
             /\ summarised' = summarised
             /\ confirms' = confirms]_vars

C9_Witness ==
    /\ last.op = "done"
    /\ last.outcome = "failed"
    /\ last.calls[1].status = 404
    /\ Lifecycle(panel[last.ticket]) = "InProgress"

\* C10: when the role check of claim or of delete channel fails, the handler
\* sends one message to the acting user and changes nothing else: panel and
\* lifecycle state stay, there is no tracker call, no confirmation panel and
\* no channel deletion.
C10_RejectedChangesNothing ==
    [][(\/ last'.op = "claim" /\ DEV \notin last'.roles
        \/ last'.op = "delete"
              /\ last'.roles \cap ({DEV} \cup configured) = {})
          => /\ last'.eph = 1
             /\ last'.pub = 0
             /\ last'.calls = <<>>
             /\ ~last'.raised
             /\ panel' = panel
             /\ channel' = channel
             /\ confirms' = confirms
             /\ assigned' = assigned
             /\ summarised' = summarised]_vars

C10_Witness ==
    /\ last.op = "claim"
    /\ last.outcome = "rejected"
    /\ DEV \notin last.roles
    /\ panel[last.ticket].status = "Waiting for Assignment"

\* C11: every action that asks for a role is authorised against the roles the
\* acting user holds when the handler runs: a claim that is not rejected was
\* made by a holder of the developer role, a confirmation panel is opened
\* only for a holder of an allowed role, and whenever a channel is deleted
\* the user who pressed "yes" held an allowed role when that press was
\* handled.
C11_RolesCheckedAtAction ==
    [][/\ (last'.op = "claim" /\ last'.outcome # "rejected")
             => ClaimAllowed(last'.roles)
       /\ (last'.op = "delete" /\ last'.outcome # "rejected")
             => DeleteAllowed(last'.roles)
       /\ \A task \in tasks \ tasks' :
             (/\ task.op = "confirm"
              /\ channel[task.ticket] = "open"
              /\ channel'[task.ticket] = "deleted")
                 => task.allowed]_vars

\* C12: no interaction handler lets an exception escape: whatever is raised
\* inside a handler is caught by it (and reported to the acting user).
C12_NoEscapingException ==
    last.op \in {"on_submit", "assign", "claim", "done", "delete", "confirm",
                 "cancel", "create_ticket", "select_type", "select_priority"}
        => ~last.raised

\* C13: a claim by a holder of the developer role on a ticket that awaits
\* assignment re-renders the panel with the status "Claimed" and sends the
\* claim notice, and leaves the ticket in AwaitingAssignment: the handler
\* makes no assignIssue and no closeIssue call, the new panel is a Todo view
\* for the same issue with its assignee select, and nothing is assigned,
\* summarised or deleted.  A later selection of an assignee on the claimed
\* panel (its channel still there) that the tracker answers with 200 moves
\* the ticket to InProgress.
C13_ClaimDoesNotAdvance ==
    [][\A t \in Tickets :
          /\ (/\ last'.op = "claim"
              /\ last'.ticket = t
              /\ ClaimAllowed(last'.roles)
              /\ Lifecycle(panel[t]) = "AwaitingAssignment"
              /\ channel[t] = "open")
                => /\ last'.outcome = "claimed"
                   /\ \A i \in 1..Len(last'.calls) :
                         last'.calls[i].api \notin {"assignIssue", "closeIssue"}
                   /\ last'.pub = 1
                   /\ Lifecycle(panel'[t]) = "AwaitingAssignment"
                   /\ panel'[t].status = "Claimed"
                   /\ panel'[t].repo = panel[t].repo
                   /\ panel'[t].number = panel[t].number
                   /\ panel'[t].options # <<>>
                   /\ panel'[t].live
                   /\ assigned' = assigned
                   /\ summarised' = summarised
                   /\ channel' = channel
          /\ (/\ last'.op = "assign"
              /\ last'.ticket = t
              /\ panel[t].status = "Claimed"
              /\ channel[t] = "open"
              /\ last'.calls # <<>>
              /\ last'.calls[1].status = 200)
                => Lifecycle(panel'[t]) = "InProgress"]_vars

C13_Witness ==
    /\ last.op = "claim"
    /\ last.outcome = "claimed"
    /\ DEV \in last.roles
    /\ panel[last.ticket].kind = "Todo"
    /\ panel[last.ticket].status = "Claimed"
    /\ panel[last.ticket].options = <<"alice">>
    /\ last.ticket \notin assigned

\* C14: a ticket's issue identity is fixed at creation.  The repository of
\* the createIssue call is the frontend repository iff the form's repo_select
\* is "frontend" and the primary repository iff it is "backend"; the issue
\* recorded for a ticket never changes; every Todo and Done panel of the
\* ticket holds that repository and issue number; and every assignIssue,
\* closeIssue and listCollaborators call made through a panel of the ticket
\* targets that repository (and, for assign and close, that issue number).
C14_IssueIdentityFixed ==
    [][/\ \A t \in 1..nTickets : issue'[t] = issue[t]
       /\ \A t \in 1..nTickets' :
             panel'[t].kind \in {"Todo", "Done"}
                 => /\ panel'[t].repo = issue'[t].repo
                    /\ panel'[t].number = issue'[t].number
       /\ (last'.op = "on_submit" /\ last'.ticket # 0)
             => /\ issue'[last'.ticket].repo = last'.calls[1].repo
                /\ issue'[last'.ticket].number > 0
                /\ (last'.calls[1].repo = REPO_NAME_FRONTEND)
                       <=> (last'.form[3] = "frontend")
                /\ (last'.calls[1].repo = REPO_NAME)
                       <=> (last'.form[3] = "backend")
       /\ (last'.op \in {"assign", "claim", "done"})
             => \A i \in 1..Len(last'.calls) :
                   /\ last'.calls[i].repo = issue[last'.ticket].repo
                   /\ last'.calls[i].api \in {"assignIssue", "closeIssue"}
                         => last'.calls[i].number = issue[last'.ticket].number]_vars

C14_Witness ==
    /\ last.op = "done"
    /\ last.calls[1].api = "closeIssue"
    /\ last.calls[1].status = 200
    /\ last.calls[1].repo = REPO_NAME_FRONTEND
    /\ issue[last.ticket].repo = REPO_NAME_FRONTEND
    /\ last.calls[1].number = issue[last.ticket].number
    /\ Lifecycle(panel[last.ticket]) = "Completed"

\* C15: the channel of a ticket is created at most once and deleted at most
\* once.  A channel changes only from absent to open, in the on_submit that
\* created the ticket, and from open to deleted, in a confirm_delete; once
\* deleted it stays deleted, no handler creates a channel for a ticket that
\* has or had one, and a confirm_delete that runs after the deletion (a
\* second press of "yes", or the "yes" of another user's confirmation panel)
\* deletes nothing and reports the error.
C15_ChannelOnce ==
    [][/\ \A t \in Tickets :
             channel'[t] # channel[t]
                 => \/ /\ channel[t] = "none"
                       /\ channel'[t] = "open"
                       /\ last'.op = "on_submit"
                       /\ last'.ticket = t
                       /\ last'.chans = 1
                    \/ /\ channel[t] = "open"
                       /\ channel'[t] = "deleted"
                       /\ last'.op = "confirm"
                       /\ last'.ticket = t
                       /\ last'.outcome = "deleted"
       /\ last'.chans > 0
             => /\ last'.op = "on_submit"
                /\ last'.chans = 1
                /\ channel[last'.ticket] = "none"
       /\ (last'.op = "confirm" /\ last'.outcome = "deleted")
             => /\ channel[last'.ticket] = "open"
                /\ channel'[last'.ticket] = "deleted"
       /\ (last'.op = "confirm" /\ channel[last'.ticket] = "deleted")
             => /\ last'.outcome \in {"announced", "delete_failed"}
                /\ channel' = channel]_vars

C15_Witness ==
    /\ last.op = "confirm"
    /\ last.outcome = "delete_failed"
    /\ channel[last.ticket] = "deleted"

\* C16: every failure message of a handler goes to the acting user only.  A
\* handler that ends in a failure sends exactly one message visible to the
\* acting user only; a handler whose createIssue, assignIssue or closeIssue
\* call did not succeed sends nothing to a shared channel and posts no panel;
\* and the only messages to shared channels are the panel and summary of a
\* created ticket, the notice of a claim and the summary of a completed
\* ticket (which is already out when the edit of the panel fails).
C16_FailuresEphemeral ==
    last.op \in {"on_submit", "assign", "claim", "done", "delete", "confirm",
                 "cancel", "create_ticket"}
        => /\ last.outcome \in {"create_failed", "no_assignee", "failed",
                                "edit_failed", "no_done_channel", "rejected",
                                "delete_failed"}
                 => last.eph = 1
           /\ last.pub > 0
                 => /\ last.pub = 1
                    /\ \/ last.op = "on_submit" /\ last.outcome = "created"
                       \/ last.op = "claim" /\ last.outcome = "claimed"
                       \/ /\ last.op = "done"
                          /\ last.outcome \in {"completed", "edit_failed"}
                          /\ last.calls[1].status = 200
           /\ last.panels > 0
                 => last.op = "on_submit" /\ last.outcome = "created"
           /\ \A i \in 1..Len(last.calls) :
                 (\/ /\ last.calls[i].api = "createIssue"
                     /\ last.calls[i].status # 201
                  \/ /\ last.calls[i].api \in {"assignIssue", "closeIssue"}
                     /\ last.calls[i].status # 200)
                     => /\ last.pub = 0
                        /\ last.panels = 0
                        /\ ~last.raised => last.eph = 1

C16_Witness ==
    /\ last.op = "done"
    /\ last.outcome = "no_done_channel"
    /\ last.eph = 1
    /\ last.pub = 0
    /\ summarised = {}

\* C17: the panels of AwaitingAssignment and of InProgress are persistent: as
\* long as the ticket's channel exists, the view of such a panel listens, so
\* the ticket can still be assigned or marked done, however much time has
\* passed and also after a restart of the process.
C17_PanelsPersistent ==
    \A t \in Tickets :
        (/\ channel[t] = "open"
         /\ Lifecycle(panel[t]) \in {"AwaitingAssignment", "InProgress"})
            => panel[t].live

\* C18: cancel on a confirmation panel reports the cancellation to the acting
\* user and deletes nothing, and a "yes" pressed on the confirmation panel
\* after the user's cancel was handled does not delete the channel.
C18_CancelKeepsChannel ==
    [][/\ last'.op = "cancel"
             => /\ last'.eph = 1
                /\ last'.pub = 0
                /\ last'.calls = <<>>
                /\ channel' = channel
                /\ panel' = panel
       /\ \A task \in tasks \ tasks' :
             (/\ task.op = "confirm"
              /\ channel[task.ticket] = "open"
              /\ channel'[task.ticket] = "deleted")
                 => ~task.after_cancel]_vars

\* C19: the expiry of a panel has no side effects.  The timeout of a view
\* sends nothing, calls nothing, creates and deletes nothing and leaves every
\* queued interaction alone; it only stops the view.  After the expiry of
\* the completion panel a press of its delete button is dispatched to no
\* handler, so no confirmation panel opens; and a "yes" is dispatched only
\* from a confirmation panel that has not expired, so an expired one never
\* deletes the channel.
C19_ExpiryHasNoSideEffects ==
    [][/\ last'.op = "timeout"
             => /\ last'.eph = 0
                /\ last'.pub = 0
                /\ last'.calls = <<>>
                /\ last'.panels = 0
                /\ last'.chans = 0
                /\ channel' = channel
                /\ tasks' = tasks
                /\ confirms' \subseteq confirms
                /\ assigned' = assigned
                /\ summarised' = summarised
                /\ \A t \in Tickets :
                      [panel'[t] EXCEPT !.live = panel[t].live] = panel[t]
       /\ (last'.op = "press" /\ last'.outcome = "ignored")
             => /\ tasks' = tasks
                /\ confirms' = confirms
                /\ channel' = channel
                /\ panel' = panel
       /\ (last'.op = "press" /\ ~panel[last'.ticket].live)
             => last'.outcome \in {"ignored", "confirm", "cancel"}
       /\ (last'.op = "press" /\ last'.outcome \in {"confirm", "cancel"})
             => <<last'.user, last'.ticket>> \in confirms
       /\ \A t \in Tickets :
             (channel[t] = "open" /\ channel'[t] = "deleted")
                 => \E task \in tasks \ tasks' :
                        task.op = "confirm" /\ task.ticket = t]_vars

C19_Witness ==
    /\ last.op = "press"
    /\ last.outcome = "ignored"
    /\ panel[last.ticket].kind = "Complete"
    /\ ~panel[last.ticket].live
    /\ channel[last.ticket] = "open"
    /\ confirms = {}
    /\ tasks = {}

\* C20: a handler that cannot resolve a shared channel it needs aborts and
\* tells the acting user.  A "mark done" that finds no completion channel
\* leaves the ticket as it was: the tracker issue is not closed, the panel
\* stays InProgress and no summary is posted.  A form submit that finds no
\* todo channel tells the submitting user and creates no ticket, so every
\* ticket that is created has its summary in the todo channel.
C20_MissingChannelAborts ==
    [][/\ (last'.op = "done" /\ last'.outcome = "no_done_channel")
             => /\ last'.eph = 1
                /\ last'.pub = 0
                /\ panel' = panel
                /\ summarised' = summarised
                /\ \A i \in 1..Len(last'.calls) :
                      ~(/\ last'.calls[i].api = "closeIssue"
                        /\ last'.calls[i].status = 200)
       /\ (last'.op = "on_submit" /\ last'.outcome = "created")
             => last'.pub = 1]_vars

\* C21: when listCollaborators fails (a status other than 200, or an
\* exception) or returns the empty list, the select gets exactly one option,
\* the placeholder, and the panel of AwaitingAssignment is rendered all the
\* same, by the form submit and by a claim.  A selection of the placeholder
\* makes no tracker call, sends one message, to the acting user only, and
\* leaves panel, lifecycle state and assignment as they were.
C21_PlaceholderWhenNoCollaborators ==
    [][/\ \A resp \in Responses, body \in CollabLists :
             (resp.raised \/ resp.status_code # 200 \/ body = <<>>)
                 => AssigneeOptions(get_collaborators(resp, body)) = <<"none">>
       /\ \A t \in Tickets :
             (/\ last'.ticket = t
              /\ \/ last'.op = "on_submit" /\ last'.outcome = "created"
                 \/ last'.op = "claim" /\ last'.outcome = "claimed")
                => /\ Lifecycle(panel'[t]) = "AwaitingAssignment"
                   /\ panel'[t].live
                   /\ Len(panel'[t].options) >= 1
                   /\ (\E i \in 1..Len(last'.calls) :
                          /\ last'.calls[i].api = "listCollaborators"
                          /\ last'.calls[i].status # 200)
                         => panel'[t].options = <<"none">>
       /\ \A task \in tasks \ tasks' :
             (/\ last'.op = "assign"
              /\ task.op = "assign"
              /\ task.value = "none")
                => /\ last'.outcome = "no_assignee"
                   /\ last'.calls = <<>>
                   /\ last'.eph = 1
                   /\ last'.pub = 0
                   /\ panel' = panel
                   /\ assigned' = assigned
                   /\ channel' = channel]_vars

C21_Witness ==
    /\ last.op = "assign"
    /\ last.outcome = "no_assignee"
    /\ panel[last.ticket].kind = "Todo"
    /\ panel[last.ticket].options = <<"none">>
    /\ last.ticket \notin assigned

\* C22: for a collaborator list of n >= 1 logins that the tracker returns
\* with status 200, the select offers exactly the first min(n, 25) logins, in
\* the order of the list; the number of options is always between 1 and 25,
\* and no login after the 25th is among the options, so none can be selected
\* and assigned through the panel.
C22_AtMost25Options ==
    last.op = "select_init"
        => LET list == last.form
               n == Len(list)
               options == panel[1].options
           IN /\ Len(options) >= 1
              /\ Len(options) <= 25
              /\ (last.calls[1].status = 200 /\ n >= 1)
                    => /\ Len(options) = (IF n < 25 THEN n ELSE 25)
                       /\ \A i \in 1..Len(options) : options[i] = list[i]
                       /\ \A i \in 26..n : \A j \in 1..Len(options) :
                             options[j] # list[i]

C22_Witness ==
    /\ last.op = "select_init"
    /\ last.calls[1].status = 200
    /\ Len(last.form) = 27
    /\ Len(panel[1].options) = 25
    /\ panel[1].options[25] = last.form[25]

\* C23: the intake steps are per user: a press of the create button that is
\* not rejected for an unset category or priority goes on to open the form
\* with the category and the priority that the pressing user selected, never
\* with a value another user selected.
C23_IntakePerUser ==
    [][(last'.op = "create_ticket" /\ last'.outcome # "rejected")
          => /\ selected_by.ticket_type = last'.user
             /\ selected_by.ticket_priority = last'.user]_vars

\* C24: for every ticket at most one completion summary is ever posted to
\* the completion channel: no "mark done" posts a summary for a ticket that
\* already has one, also when two users press at nearly the same time and
\* both closeIssue calls return 200.
C24_AtMostOneSummary ==
    [][(last'.op = "done" /\ last'.pub > 0)
          => /\ last'.pub = 1
             /\ last'.ticket \notin summarised]_vars

\* C26: the channel of a ticket is deleted only after the ticket reached
\* Completed.  A step that deletes a channel is the confirm_delete of a
\* ticket whose completion summary is out, and a completion summary goes out
\* only in a done_button of that ticket whose closeIssue call, for the
\* ticket's issue, returned 200; so every deleted channel belongs to a ticket
\* whose issue was closed with 200 before.
C26_DeleteOnlyAfterCompleted ==
    [][/\ \A t \in Tickets :
             (channel[t] # "deleted" /\ channel'[t] = "deleted")
                 => /\ t \in summarised
                    /\ last'.op = "confirm"
                    /\ last'.ticket = t
       /\ \A t \in summarised' \ summarised :
             /\ last'.op = "done"
             /\ last'.ticket = t
             /\ Len(last'.calls) = 1
             /\ last'.calls[1].api = "closeIssue"
             /\ last'.calls[1].status = 200
             /\ last'.calls[1].repo = issue[t].repo
             /\ last'.calls[1].number = issue[t].number
       /\ \A t \in Tickets :
             Lifecycle(panel'[t]) = "Completed" => t \in summarised']_vars

C26_Witness ==
    /\ last.op = "confirm"
    /\ last.outcome = "deleted"
    /\ channel[last.ticket] = "deleted"
    /\ last.ticket \in summarised

\* C27: after every on_ready in which the ticket channel was found and the
\* platform accepted what on_ready sent, a usable entry point exists: the
\* persisted record is readable and names an existing message, and the view
\* with the intake handlers is attached to that message.  This includes the
\* startups that find a record naming a deleted message or an unreadable
\* record: they post a new entry-point message and persist its id.
C27_EntryPointAfterStartup ==
    (last.op = "on_ready" /\ last.outcome \notin {"no_channel", "send_raised"})
        => /\ file.exists
           /\ file.readable
           /\ file.message_id \in messages
           /\ attached = {file.message_id}
           /\ ~last.raised

\* The part of the ticket state that belongs to ticket t.
TicketState(t) ==
    [panel |-> panel[t], issue |-> issue[t], channel |-> channel[t],
     assigned |-> t \in assigned, summarised |-> t \in summarised,
     confirms |-> {c \in confirms : c[2] = t},
     tasks |-> {task \in tasks : task.ticket = t}]

PanelOps == {"assign", "claim", "done", "delete", "confirm", "cancel"}

\* C25: actions on different tickets are independent.  A press on a panel of
\* one ticket is dispatched to the handler of that ticket, with that
\* ticket's issue identity, and changes nothing but the interactions in
\* flight for that ticket; a claim, assignee selection, mark-done, delete,
\* confirm or cancel handler of one ticket leaves the panel (lifecycle
\* state), issue identity, assignee, summary, channel, confirmation panels
\* and interactions in flight of every other ticket unchanged, and its
\* assignIssue or closeIssue call names no other ticket's issue; this for
\* every interleaving of the presses and handlers of two tickets.
C25_TicketsIndependent ==
    [][/\ last'.op \in PanelOps \cup {"press"}
             => \A t \in Tickets \ {last'.ticket} :
                    TicketState(t)' = TicketState(t)
       /\ last'.op = "press"
             => /\ Cardinality(tasks' \ tasks) = 1
                /\ \A task \in tasks' \ tasks :
                       /\ task.ticket = last'.ticket
                       /\ task.repo = panel[last'.ticket].repo
                       /\ task.number = panel[last'.ticket].number
                /\ tasks \subseteq tasks'
       /\ last'.op \in PanelOps
             => \A i \in 1..Len(last'.calls) :
                    last'.calls[i].api \in {"assignIssue", "closeIssue"}
                        => \A t \in (1..nTickets) \ {last'.ticket} :
                               ~ /\ last'.calls[i].repo = issue[t].repo
                                 /\ last'.calls[i].number = issue[t].number]_vars

\* A handler of one ticket has just changed that ticket while an interaction
\* of the other ticket is in flight.
C25_Witness ==
    /\ nTickets = 2
    /\ last.op = "done"
    /\ last.outcome = "completed"
    /\ Lifecycle(panel[last.ticket]) = "Completed"
    /\ \E task \in tasks :
           /\ task.ticket # last.ticket
           /\ task.op = "confirm"
           /\ task.pc = "sleeping"

====
